---- MODULE Spec2Model ----
(***************************************************************************)
(* Ray/triangle and ray/tetrahedron intersection with their vjp routines,  *)
(* and integral_opacity with its vjp (gsplat/cuda/csrc/ext.cpp, the tetra  *)
(* header part).                                                           *)
(*                                                                         *)
(* Numbers.  The routines are templates over a floating type T.  A scalar  *)
(* is modelled as an exact decimal-scaled rational [n, d, e] standing for  *)
(* (n / d) * 10^e, kept in a canonical form, so that the sentinels 1e10    *)
(* and -1e10 and the thresholds 1e-8 and 1e-6 are exact values and every   *)
(* +, -, *, / and comparison of the code is computed, not assumed.         *)
(* Rounding of the floating type, NaN and infinities are not modelled.     *)
(***************************************************************************)
EXTENDS Integers, Sequences, FiniteSets, TLC

(***************************************************************************)
(* Scalars                                                                 *)
(***************************************************************************)
Abs(x) == IF x < 0 THEN -x ELSE x

RECURSIVE GCD(_, _)
GCD(a, b) == IF b = 0 THEN a ELSE GCD(b, a % b)

Pow10(k) ==
    CASE k = 0 -> 1
      [] k = 1 -> 10
      [] k = 2 -> 100
      [] k = 3 -> 1000
      [] k = 4 -> 10000
      [] k = 5 -> 100000
      [] k = 6 -> 1000000
      [] k = 7 -> 10000000
      [] k = 8 -> 100000000
      [] k = 9 -> 1000000000

RZero == [n |-> 0, d |-> 1, e |-> 0]

\* move the factors 10 of the numerator into the decimal exponent
RECURSIVE NumToExp(_, _, _)
NumToExp(n, d, e) ==
    IF n % 10 = 0 THEN NumToExp(n \div 10, d, e + 1)
    ELSE [n |-> n, d |-> d, e |-> e]

\* move the factors 2 and 5 of the denominator into the decimal exponent
RECURSIVE DenomToExp(_, _, _)
DenomToExp(n, d, e) ==
    IF d % 2 = 0 THEN DenomToExp(n * 5, d \div 2, e - 1)
    ELSE IF d % 5 = 0 THEN DenomToExp(n * 2, d \div 5, e - 1)
    ELSE NumToExp(n, d, e)

Reduce(n, d, e, g) == DenomToExp(n \div g, d \div g, e)

\* the canonical form of (n / d) * 10^e, d # 0: n and d coprime, d > 0 and
\* coprime to 10, n no multiple of 10; equal numbers have equal forms
Norm(n, d, e) ==
    IF n = 0 THEN RZero
    ELSE IF d < 0 THEN Reduce(-n, -d, e, GCD(Abs(n), -d))
    ELSE Reduce(n, d, e, GCD(Abs(n), d))

RInt(k) == Norm(k, 1, 0)
RExp(k, e) == Norm(k, 1, e)

RNeg(x) == [n |-> -x.n, d |-> x.d, e |-> x.e]

RMulG(x, y, g1, g2) ==
    Norm((x.n \div g1) * (y.n \div g2), (x.d \div g2) * (y.d \div g1), x.e + y.e)

RMul(x, y) ==
    IF x.n = 0 \/ y.n = 0 THEN RZero
    ELSE RMulG(x, y, GCD(Abs(x.n), y.d), GCD(Abs(y.n), x.d))

RAddG(x, y, e, g) ==
    Norm(x.n * Pow10(x.e - e) * (y.d \div g) + y.n * Pow10(y.e - e) * (x.d \div g),
         (x.d \div g) * y.d, e)

RAdd(x, y) ==
    IF x.n = 0 THEN y
    ELSE IF y.n = 0 THEN x
    ELSE RAddG(x, y, IF x.e < y.e THEN x.e ELSE y.e, GCD(x.d, y.d))

RSub(x, y) == RAdd(x, RNeg(y))

\* 1 / x, for x # 0
RInv(x) == Norm(x.d, x.n, -x.e)

RDiv(x, y) == RMul(x, RInv(y))

CeilDiv(a, b) == -((-a) \div b)

\* A * 10^k < B; the exponents may be far apart (1.2 against 1e10): TLC's
\* integers are below 10^10
LtScaled(A, B, k) ==
    IF k >= 0
    THEN IF k > 9 THEN (A < 0 \/ (A = 0 /\ 0 < B))
         ELSE A < CeilDiv(B, Pow10(k))
    ELSE IF -k > 9 THEN (B > 0 \/ (B = 0 /\ A < 0))
         ELSE (A \div Pow10(-k)) < B

\* x < y
RLt(x, y) == LtScaled(x.n * y.d, y.n * x.d, x.e - y.e)

RGt(x, y) == RLt(y, x)
RLe(x, y) == ~RLt(y, x)

(***************************************************************************)
(* vec3<T>                                                                 *)
(***************************************************************************)
VZero == <<RZero, RZero, RZero>>
VAdd(a, b) == <<RAdd(a[1], b[1]), RAdd(a[2], b[2]), RAdd(a[3], b[3])>>
VSub(a, b) == <<RSub(a[1], b[1]), RSub(a[2], b[2]), RSub(a[3], b[3])>>
VScale(s, a) == <<RMul(s, a[1]), RMul(s, a[2]), RMul(s, a[3])>>
Dot(a, b) == RAdd(RAdd(RMul(a[1], b[1]), RMul(a[2], b[2])), RMul(a[3], b[3]))
Cross(a, b) ==
    << RSub(RMul(a[2], b[3]), RMul(a[3], b[2])),
       RSub(RMul(a[3], b[1]), RMul(a[1], b[3])),
       RSub(RMul(a[1], b[2]), RMul(a[2], b[1])) >>
\* integer coordinates m scaled by 10^e
VecOf(m, e) == <<RExp(m[1], e), RExp(m[2], e), RExp(m[3], e)>>

(***************************************************************************)
(* ray_triangle_intersection.  The locals are carried in a record l and    *)
(* assigned in the order of the code's statements (0 until assigned).      *)
(***************************************************************************)
EPSILON == RExp(1, -8)

NoHit == [hit |-> FALSE, t |-> "unset"]

\* v = f * dot(d, q); outside the triangle or t = f * dot(e2, q)
\* the variant with the sign test: a hit only for t > EPSILON
TriVAhead(l) ==
    IF RLt(l.v, RZero) \/ RGt(RAdd(l.u, l.v), RInt(1)) THEN NoHit
    ELSE IF RGt(RMul(l.f, Dot(l.e2, l.q)), EPSILON)
    THEN [hit |-> TRUE, t |-> RMul(l.f, Dot(l.e2, l.q))]
    ELSE NoHit

TriV(l) ==
    IF RLt(l.v, RZero) \/ RGt(RAdd(l.u, l.v), RInt(1)) THEN NoHit
    ELSE [hit |-> TRUE, t |-> RMul(l.f, Dot(l.e2, l.q))]

TriQ(l) == TriV([l EXCEPT !.v = RMul(l.f, Dot(l.d, l.q))])

\* u = f * dot(s, h); outside the triangle or q = cross(s, e1)
TriU(l) ==
    IF RLt(l.u, RZero) \/ RGt(l.u, RInt(1)) THEN NoHit
    ELSE TriQ([l EXCEPT !.q = Cross(l.s, l.e1)])

TriF(l) == TriU([l EXCEPT !.u = RMul(l.f, Dot(l.s, l.h))])

\* a = dot(e1, h); parallel to the triangle or f = 1 / a, s = o - v0
TriA(l) ==
    IF RGt(l.a, RNeg(EPSILON)) /\ RLt(l.a, EPSILON) THEN NoHit
    ELSE TriF([l EXCEPT !.f = RInv(l.a), !.s = VSub(l.o, l.v0)])

TriH(l) == TriA([l EXCEPT !.a = Dot(l.e1, l.h)])

TriE(l) == TriH([l EXCEPT !.h = Cross(l.d, l.e2)])

\* [hit, t]: t is written only on a hit; "unset" stands for the untouched
\* output argument
ray_triangle_intersection(o, d, v0, v1, v2) ==
    TriE([o |-> o, d |-> d, v0 |-> v0, e1 |-> VSub(v1, v0), e2 |-> VSub(v2, v0),
          h |-> VZero, a |-> RZero, f |-> RZero, s |-> VZero, u |-> RZero,
          q |-> VZero, v |-> RZero])

(***************************************************************************)
(* ray_triangle_intersection_vjp: <<v_v0, v_v1, v_v2>>                     *)
(***************************************************************************)
\* v_v0 -= v_s; v_v2 += v_e2; v_v0 -= v_e2; v_v1 += v_e1; v_v0 -= v_e1
TriVjpOut(l) ==
    << VSub(VSub(VSub(VZero, l.v_s), l.v_e2), l.v_e1), VAdd(VZero, l.v_e1),
       VAdd(VZero, l.v_e2) >>

\* h = cross(d, e2): v_e2 += cross(v_h, d)
TriVjpH(l) == TriVjpOut([l EXCEPT !.v_e2 = VAdd(l.v_e2a, Cross(l.v_h, l.d))])

\* a = dot(e1, h): v_e1 += v_a * h; v_h = v_a * e1
TriVjpA(l) ==
    TriVjpH([l EXCEPT !.v_e1 = VAdd(l.v_e1a, VScale(l.v_a, l.h)), !.v_h = VScale(l.v_a, l.e1)])

\* q = cross(s, e1): v_s, v_e1; f = 1 / a: v_a = -v_f / (a * a)
TriVjpQ(l) ==
    TriVjpA([l EXCEPT !.v_s = Cross(l.e1, l.v_q), !.v_e1a = Cross(l.v_q, l.s),
                  !.v_a = RDiv(RNeg(l.v_f), RMul(l.a, l.a))])

\* t = f * dot(e2, q): v_f, v_e2, v_q
TriVjpT(l) ==
    TriVjpQ([l EXCEPT !.v_f = RMul(l.v_t, l.dot_e2_q),
                  !.v_e2a = VScale(l.f, VScale(l.v_t, l.q)),
                  !.v_q = VScale(l.f, VScale(l.v_t, l.e2))])

TriVjpF(l) == TriVjpT([l EXCEPT !.f = RInv(l.a), !.dot_e2_q = Dot(l.e2, l.q)])

TriVjpE(l) ==
    TriVjpF([l EXCEPT !.a = Dot(l.e1, l.h), !.q = Cross(l.s, l.e1)])

TriVjpS(l) == TriVjpE([l EXCEPT !.h = Cross(l.d, l.e2)])

ray_triangle_intersection_vjp(o, d, v0, v1, v2, v_t) ==
    TriVjpS([d |-> d, v_t |-> v_t, e1 |-> VSub(v1, v0), e2 |-> VSub(v2, v0),
             s |-> VSub(o, v0), h |-> VZero, a |-> RZero, f |-> RZero, q |-> VZero,
             dot_e2_q |-> RZero, v_f |-> RZero, v_e2a |-> VZero, v_q |-> VZero,
             v_s |-> VZero, v_e1a |-> VZero, v_a |-> RZero, v_e1 |-> VZero,
             v_h |-> VZero, v_e2 |-> VZero])

(***************************************************************************)
(* ray_tetra_intersection                                                  *)
(***************************************************************************)
\* the face table: faces[i][k], i in 0..3, k in 1..3
\* the variant with the first two faces exchanged
FaceTableExchanged(v0, v1, v2, v3) ==
    [i \in 0..3 |->
        CASE i = 0 -> <<v1, v2, v3>>
          [] i = 1 -> <<v0, v1, v2>>
          [] i = 2 -> <<v2, v3, v0>>
          [] i = 3 -> <<v3, v0, v1>>]

FaceTable(v0, v1, v2, v3) ==
    [i \in 0..3 |->
        CASE i = 0 -> <<v0, v1, v2>>
          [] i = 1 -> <<v1, v2, v3>>
          [] i = 2 -> <<v2, v3, v0>>
          [] i = 3 -> <<v3, v0, v1>>]

T_ENTRY_INIT == RExp(1, 10)
T_EXIT_INIT == RExp(-1, 10)

\* if (t_isct > t_exit) { exit_face_idx = i; t_exit = t_isct; }
TetraExit(i, r, t_isct) ==
    IF RGt(t_isct, r.t_exit) THEN [r EXCEPT !.exit_face_idx = i, !.t_exit = t_isct]
    ELSE r

\* if (t_isct < t_entry) { entry_face_idx = i; t_entry = t_isct; }
TetraEntry(i, r, t_isct) ==
    IF RLt(t_isct, r.t_entry) THEN [r EXCEPT !.entry_face_idx = i, !.t_entry = t_isct]
    ELSE r

\* one iteration of the loop over the faces, tri the result for face i
TetraStep(i, r, tri) ==
    IF tri.hit THEN TetraExit(i, TetraEntry(i, r, tri.t), tri.t) ELSE r

RECURSIVE TetraLoop(_, _, _, _, _)
TetraLoop(o, d, faces, i, r) ==
    IF i < 4
    THEN TetraLoop(o, d, faces, i + 1,
            TetraStep(i, r, ray_triangle_intersection(o, d, faces[i][1], faces[i][2],
                                                      faces[i][3])))
    ELSE r

\* if (entry_face_idx < 0 && exit_face_idx < 0) return false; return true;
TetraReturn(r) ==
    [hit |-> ~(r.entry_face_idx < 0 /\ r.exit_face_idx < 0),
     entry_face_idx |-> r.entry_face_idx, exit_face_idx |-> r.exit_face_idx,
     t_entry |-> r.t_entry, t_exit |-> r.t_exit]

ray_tetra_intersection(o, d, v0, v1, v2, v3) ==
    TetraReturn(TetraLoop(o, d, FaceTable(v0, v1, v2, v3), 0,
        [entry_face_idx |-> -1, exit_face_idx |-> -1,
         t_entry |-> T_ENTRY_INIT, t_exit |-> T_EXIT_INIT]))

(***************************************************************************)
(* The two vjp variants.  acc is the four accumulators v_v0..v_v3 as a     *)
(* function on 0..3.  The result also counts the calls made.               *)
(***************************************************************************)
\* the switch over the face index; no case matches an index outside 0..3
\* the variant that assigns where the code adds
ScatterAssigning(idx, acc, g) ==
    CASE idx = 0 -> [acc EXCEPT ![0] = g[1], ![1] = g[2], ![2] = g[3]]
      [] idx = 1 -> [acc EXCEPT ![1] = g[1], ![2] = g[2], ![3] = g[3]]
      [] idx = 2 -> [acc EXCEPT ![2] = g[1], ![3] = g[2], ![0] = g[3]]
      [] idx = 3 -> [acc EXCEPT ![3] = g[1], ![0] = g[2], ![1] = g[3]]
      [] OTHER -> acc

Scatter(idx, acc, g) ==
    CASE idx = 0 -> [acc EXCEPT ![0] = VAdd(@, g[1]), ![1] = VAdd(@, g[2]), ![2] = VAdd(@, g[3])]
      [] idx = 1 -> [acc EXCEPT ![1] = VAdd(@, g[1]), ![2] = VAdd(@, g[2]), ![3] = VAdd(@, g[3])]
      [] idx = 2 -> [acc EXCEPT ![2] = VAdd(@, g[1]), ![3] = VAdd(@, g[2]), ![0] = VAdd(@, g[3])]
      [] idx = 3 -> [acc EXCEPT ![3] = VAdd(@, g[1]), ![0] = VAdd(@, g[2]), ![1] = VAdd(@, g[3])]
      [] OTHER -> acc

ZeroAcc == [j \in 0..3 |-> VZero]

\* faces[idx][0..2] handed to ray_triangle_intersection_vjp and scattered.
\* An index outside 0..3 reads outside the four-entry table: the values read
\* are indeterminate and the switch discards what is computed from them, or
\* the access faults (ub) and the routine does not continue.
FaceVjp(o, d, faces, idx, v_t, st) ==
    IF st.fault THEN st
    ELSE IF idx \notin 0..3
    THEN [st EXCEPT !.oob = TRUE, !.fault = st.ub]
    ELSE [st EXCEPT
            !.v = Scatter(idx, st.v,
                    ray_triangle_intersection_vjp(o, d, faces[idx][1], faces[idx][2],
                                                  faces[idx][3], v_t)),
            !.tri_vjp_calls = @ + 1]

VjpState(acc, ub, fwd_calls) ==
    [v |-> acc, fwd_calls |-> fwd_calls, tri_vjp_calls |-> 0, oob |-> FALSE,
     fault |-> FALSE, ub |-> ub]

VjpResult(st) ==
    [v |-> st.v, fwd_calls |-> st.fwd_calls, tri_vjp_calls |-> st.tri_vjp_calls,
     oob |-> st.oob, fault |-> st.fault]

\* the entry face with v_t_entry, then the exit face with v_t_exit
BothFaces(o, d, faces, entry_face_idx, exit_face_idx, v_t_entry, v_t_exit, st) ==
    VjpResult(FaceVjp(o, d, faces, exit_face_idx, v_t_exit,
                FaceVjp(o, d, faces, entry_face_idx, v_t_entry, st)))

\* after the forward pass: if (!hit) return; then the two faces
VjpAfterForward(o, d, faces, fw, v_t_entry, v_t_exit, st) ==
    IF ~fw.hit THEN VjpResult(st)
    ELSE BothFaces(o, d, faces, fw.entry_face_idx, fw.exit_face_idx, v_t_entry, v_t_exit, st)

\* the variant that zeroes the accumulators before the early return
VjpZeroingFirst(o, d, v0, v1, v2, v3, v_t_entry, v_t_exit, acc, ub) ==
    IF v_t_entry = RZero /\ v_t_exit = RZero THEN VjpResult(VjpState(ZeroAcc, ub, 0))
    ELSE VjpAfterForward(o, d, FaceTable(v0, v1, v2, v3),
            ray_tetra_intersection(o, d, v0, v1, v2, v3),
            v_t_entry, v_t_exit, VjpState(ZeroAcc, ub, 1))

\* the variant that never zeroes the accumulators
VjpNotZeroing(o, d, v0, v1, v2, v3, v_t_entry, v_t_exit, acc, ub) ==
    IF v_t_entry = RZero /\ v_t_exit = RZero THEN VjpResult(VjpState(acc, ub, 0))
    ELSE VjpAfterForward(o, d, FaceTable(v0, v1, v2, v3),
            ray_tetra_intersection(o, d, v0, v1, v2, v3),
            v_t_entry, v_t_exit, VjpState(acc, ub, 1))

ray_tetra_intersection_vjp(o, d, v0, v1, v2, v3, v_t_entry, v_t_exit, acc, ub) ==
    IF v_t_entry = RZero /\ v_t_exit = RZero THEN VjpResult(VjpState(acc, ub, 0))
    ELSE VjpAfterForward(o, d, FaceTable(v0, v1, v2, v3),
            ray_tetra_intersection(o, d, v0, v1, v2, v3),
            v_t_entry, v_t_exit, VjpState(ZeroAcc, ub, 1))

ray_tetra_intersection_vjp_shortcut(o, d, v0, v1, v2, v3, entry_face_idx, exit_face_idx, v_t_entry, v_t_exit, acc, ub) ==
    IF v_t_entry = RZero /\ v_t_exit = RZero THEN VjpResult(VjpState(acc, ub, 0))
    ELSE BothFaces(o, d, FaceTable(v0, v1, v2, v3), entry_face_idx, exit_face_idx,
                   v_t_entry, v_t_exit, VjpState(acc, ub, 0))

(***************************************************************************)
(* mat3<S>: three rows.  __expf, sqrtf and the line integral are computed  *)
(* to two decimals; __expf is only applied to arguments <= 0 here.         *)
(***************************************************************************)
MatVec(m, v) == <<Dot(m[1], v), Dot(m[2], v), Dot(m[3], v)>>
MatScale(s, m) == <<VScale(s, m[1]), VScale(s, m[2]), VScale(s, m[3])>>
MatAdd(a, b) == <<VAdd(a[1], b[1]), VAdd(a[2], b[2]), VAdd(a[3], b[3])>>
\* glm::outerProduct(c, r): the matrix c * r^T
OuterProduct(c, r) == <<VScale(c[1], r), VScale(c[2], r), VScale(c[3], r)>>
MatOf(m, e) == <<VecOf(m[1], e), VecOf(m[2], e), VecOf(m[3], e)>>
MZero == <<VZero, VZero, VZero>>

PI == Norm(355, 113, 0)

\* floor(x * 10^k), k in 0..3
FloorAt(x, k) ==
    IF x.e + k >= 0 THEN (x.n * Pow10(x.e + k)) \div x.d
    ELSE IF x.e + k >= -9 THEN (x.n \div Pow10(-(x.e + k))) \div x.d
    ELSE IF x.n < 0 THEN -1 ELSE 0

\* floor(x * 1000) for -20 <= x <= 0, and -20000 below that
MilliFloor(x) == IF RLt(x, RInt(-20)) THEN -20000 ELSE FloorAt(x, 3)

\* x cut to two decimals
Centi(x) == Norm(FloorAt(x, 2), 100, 0)

\* e^-k, e^-(j/10) in thousandths
ExpUnits(k) == IF k > 7 THEN 0
               ELSE <<1000, 368, 135, 50, 18, 7, 2, 1>>[k + 1]
ExpTenths(j) == <<1000, 905, 819, 741, 670, 607, 549, 497, 449, 407>>[j + 1]
\* e^-(r/1000), 0 <= r < 100: 1 - y + y^2 / 2
ExpRest(r) == 1000 - r + ((r * r) \div 2000)

\* e^-(m/1000) in thousandths, m >= 0
ExpMilli(m) ==
    (((ExpUnits(m \div 1000) * ExpTenths((m % 1000) \div 100)) \div 1000)
        * ExpRest(m % 100)) \div 1000

\* __expf(x), x <= 0, to two decimals
Expf(x) == Norm(ExpMilli(-MilliFloor(x)) \div 10, 100, 0)

RECURSIVE ISqrtIn(_, _, _)
ISqrtIn(n, lo, hi) ==
    IF lo >= hi THEN lo
    ELSE IF ((lo + hi + 1) \div 2) * ((lo + hi + 1) \div 2) <= n
         THEN ISqrtIn(n, (lo + hi + 1) \div 2, hi)
         ELSE ISqrtIn(n, lo, ((lo + hi + 1) \div 2) - 1)

\* sqrt of (n / d) * 10^e with e even
SqrtEven(n, d, e) ==
    IF n < 200000 THEN Norm(ISqrtIn((n * 10000) \div d, 0, 46340), 100, e \div 2)
    ELSE Norm(ISqrtIn((n * 100) \div d, 0, 46340), 10, e \div 2)

\* sqrtf(x), x >= 0
Sqrtf(x) ==
    IF x.n = 0 THEN RZero
    ELSE IF x.e % 2 = 0 THEN SqrtEven(x.n, x.d, x.e)
    ELSE SqrtEven(x.n * 10, x.d, x.e - 1)

(***************************************************************************)
(* integral_opacity: [opacity, printed]                                    *)
(***************************************************************************)
RR_MIN == RExp(1, -6)

\* opacity = 1 - exp(-density * integral); the printf under verbose
OpacityOf(density, integral, verbose) ==
    [opacity |-> RSub(RInt(1), Expf(RMul(RNeg(density), integral))),
     printed |-> verbose]

\* cc = dd - dr * dr * rr_inv; the integral of the density along the line
LineIntegral(l) ==
    Centi(RMul(RMul(RInt(2), Expf(RMul(RExp(-5, -1), l.cc))),
               Sqrtf(RMul(RMul(RExp(5, -1), PI), l.rr_inv))))

OpCc(l) == [l EXCEPT !.cc = RSub(l.dd, RMul(RMul(l.dr, l.dr), l.rr_inv))]

\* rr_inv, dr, dd
OpDots(l) ==
    OpCc([l EXCEPT !.rr_inv = RInv(l.rr),
                   !.dr = Dot(l.mu, MatVec(l.precision, l.ray_d)),
                   !.dd = Dot(l.mu, MatVec(l.precision, l.mu))])

\* the variant that integrates for rr >= 1e-6
OpRrFromThreshold(l) ==
    IF ~RLt(l.rr, RR_MIN)
    THEN OpacityOf(l.density, LineIntegral(OpDots(l)), l.verbose)
    ELSE [opacity |-> RZero, printed |-> FALSE]

OpRr(l) ==
    IF RGt(l.rr, RR_MIN)
    THEN OpacityOf(l.density, LineIntegral(OpDots(l)), l.verbose)
    ELSE [opacity |-> RZero, printed |-> FALSE]

\* mu = mean3d - ray_o; rr = dot(ray_d, precision * ray_d)
OpLocals(density, ray_o, ray_d, mean3d, precision, verbose) ==
    [density |-> density, ray_d |-> ray_d, precision |-> precision, verbose |-> verbose,
     mu |-> VSub(mean3d, ray_o), rr |-> Dot(ray_d, MatVec(precision, ray_d)),
     rr_inv |-> RZero, dr |-> RZero, dd |-> RZero, cc |-> RZero]

integral_opacity(density, ray_o, ray_d, mean3d, precision, verbose) ==
    IF density = RZero THEN [opacity |-> RZero, printed |-> FALSE]
    ELSE OpRr(OpLocals(density, ray_o, ray_d, mean3d, precision, verbose))

(***************************************************************************)
(* integral_opacity_vjp: the three accumulators g = [v_mean3d,             *)
(* v_precision, v_density] after the call                                  *)
(***************************************************************************)
\* v_mean3d and v_precision from v_rr, v_dr, v_dd
OpVjpOut(l, g) ==
    [g EXCEPT
        !.v_mean3d = VAdd(VAdd(@, VScale(l.v_dr, MatVec(l.precision, l.ray_d))),
                          VScale(l.v_dd, MatVec(MatScale(RInt(2), l.precision), l.mu))),
        !.v_precision =
            MatAdd(MatAdd(MatAdd(@, MatScale(l.v_rr, OuterProduct(l.ray_d, l.ray_d))),
                          MatScale(l.v_dr, OuterProduct(l.mu, l.ray_d))),
                   MatScale(l.v_dd, OuterProduct(l.mu, l.mu)))]

\* v_rr = v_cc * rr_inv; v_dd = v_cc; v_dr = -2 dr rr_inv v_cc;
\* v_rr += dr * dr * rr_inv * rr_inv * v_cc
OpVjpCc(l, g) ==
    OpVjpOut([l EXCEPT
                !.v_rr = RAdd(RMul(l.v_cc, l.rr_inv),
                              RMul(RMul(RMul(RMul(l.dr, l.dr), l.rr_inv), l.rr_inv), l.v_cc)),
                !.v_dd = l.v_cc,
                !.v_dr = RMul(RMul(RMul(RInt(-2), l.dr), l.rr_inv), l.v_cc)], g)

\* v_cc = -0.5 * integral * v_integral
OpVjpIntegral(l, g) ==
    OpVjpCc([l EXCEPT !.v_cc = RMul(RMul(RExp(-5, -1), l.integral), l.v_integral)], g)

\* v_density += v_opacity * integral * (1 - opacity);
\* v_integral = v_opacity * density * (1 - opacity)
OpVjpOpacity(l, g) ==
    OpVjpIntegral(
        [l EXCEPT !.v_integral =
            RMul(RMul(l.v_opacity, l.density), RSub(RInt(1), l.opacity))],
        [g EXCEPT !.v_density =
            RAdd(@, RMul(RMul(l.v_opacity, l.integral), RSub(RInt(1), l.opacity)))])

OpVjpExp(l, g) ==
    OpVjpOpacity(
        [l EXCEPT !.opacity = RSub(RInt(1), Expf(RMul(RNeg(l.density), l.integral)))], g)

OpVjpLine(l, g) == OpVjpExp([l EXCEPT !.integral = LineIntegral(l)], g)

OpVjpRr(l, g) == IF RGt(l.rr, RR_MIN) THEN OpVjpLine(OpDots(l), g) ELSE g

OpVjpLocals(l, v_opacity) ==
    [density |-> l.density, ray_d |-> l.ray_d, precision |-> l.precision, mu |-> l.mu,
     rr |-> l.rr, rr_inv |-> RZero, dr |-> RZero, dd |-> RZero, cc |-> RZero,
     v_opacity |-> v_opacity, integral |-> RZero, opacity |-> RZero, v_integral |-> RZero,
     v_cc |-> RZero, v_rr |-> RZero, v_dd |-> RZero, v_dr |-> RZero]

integral_opacity_vjp(density, ray_o, ray_d, mean3d, precision, v_opacity, g) ==
    IF density = RZero THEN g
    ELSE OpVjpRr(OpVjpLocals(OpLocals(density, ray_o, ray_d, mean3d, precision, FALSE),
                             v_opacity), g)

(***************************************************************************)
(* Inputs of the callers                                                   *)
(***************************************************************************)
MaxGrad == 1
MaxAcc == 1
MaxDensity == 1

\* tetrahedra, integer coordinates: the axis-aligned one and the same one
\* with its vertices in another order
Tetra == << <<0, 0, 0>>, <<10, 0, 0>>, <<0, 10, 0>>, <<0, 0, 10>> >>
\* the same tetrahedron with its vertices in another order
TetraReordered == << <<0, 0, 10>>, <<0, 0, 0>>, <<10, 0, 0>>, <<0, 10, 0>> >>

Origins == { <<1, 1, 20>>, <<5, -5, 5>>, <<1, 1, 5>>, <<1, -5, 5>> }

Dirs == { <<0, 0, -1>>, <<0, 0, 1>>, <<0, 1, -1>>, <<0, 1, 0>>,
          <<1, 1, 1>>, <<-1, -1, -1>>, <<1, 0, 0>> }

\* positions are the integer coordinates times 10^-pexp, the direction is the
\* integer direction times 10^-dexp
Scales == { [pexp |-> 1, dexp |-> 0], [pexp |-> 0, dexp |-> 9], [pexp |-> 1, dexp |-> 9] }

UnitScale == [pexp |-> 1, dexp |-> 0]

\* <<tetrahedron, origin, direction, scale>>
Scenes ==
    ({Tetra} \X Origins \X Dirs \X Scales)
        \cup ({TetraReordered} \X Origins \X Dirs \X {UnitScale})

Grads == (-MaxGrad)..MaxGrad

\* precision matrices, integer entries m times 10^pe
Precisions ==
    { [m |-> << <<1, 0, 0>>, <<0, 1, 0>>, <<0, 0, 1>> >>, pe |-> 0],
      [m |-> << <<1, 0, 0>>, <<0, 1, 0>>, <<0, 0, 1>> >>, pe |-> -6],
      [m |-> << <<2, 0, 0>>, <<0, 2, 0>>, <<0, 0, 2>> >>, pe |-> -6],
      [m |-> << <<1, 0, 0>>, <<0, 0, 0>>, <<0, 0, 0>> >>, pe |-> 0],
      [m |-> << <<-1, 0, 0>>, <<0, -1, 0>>, <<0, 0, -1>> >>, pe |-> 0],
      [m |-> << <<2, 1, 0>>, <<1, 2, 0>>, <<0, 0, 1>> >>, pe |-> 0] }

GaussRayOrigins == { <<0, 0, 0>>, <<1, 0, 0>> }
GaussRayDirs == { <<0, 0, 1>>, <<0, 1, 1>>, <<0, 0, 0>> }
Means == { <<0, 0, 0>>, <<1, 0, 1>>, <<0, 2, 0>> }

VARIABLES
    pc,        \* where the caller is
    ray,       \* [o, d, pexp, dexp]: integer origin and direction and their scales
    tet,       \* the four vertices, integer coordinates
    tri,       \* ray_triangle_intersection on one face: [face, hit, t]
    fwd,       \* what ray_tetra_intersection returned
    up,        \* [v_t_entry, v_t_exit, acc0]: upstream gradients, accumulators on entry
    vjp,       \* what ray_tetra_intersection_vjp left
    sc,        \* what ray_tetra_intersection_vjp_shortcut left, with its indices
    gs,        \* [density, ray_o, ray_d, mean3d, precision]: inputs of integral_opacity
    op,        \* what integral_opacity returned: [opacity, printed]
    og         \* [v_opacity, g0, g]: integral_opacity_vjp's accumulators before and after

vars == <<pc, ray, tet, tri, fwd, up, vjp, sc, gs, op, og>>

RayO == VecOf(ray.o, -ray.pexp)
RayD == VecOf(ray.d, -ray.dexp)
Vert(j) == VecOf(tet[j + 1], -ray.pexp)

\* accumulator contents on entry: pattern k, in the unit of the gradients
AccInit(k) == [j \in 0..3 |-> VecOf(<<k * (j + 1), -k, k>>, ray.dexp)]

GradInit(k) ==
    [v_mean3d |-> VecOf(<<k, -k, 2 * k>>, 0),
     v_precision |-> MatOf(<< <<k, 0, -k>>, <<2 * k, k, 0>>, <<0, 0, k>> >>, 0),
     v_density |-> RInt(k)]

InitTetra ==
    /\ pc = "start"
    /\ \E sn \in Scenes :
          /\ tet = sn[1]
          /\ ray = [o |-> sn[2], d |-> sn[3], pexp |-> sn[4].pexp, dexp |-> sn[4].dexp]
    /\ gs = "none"

InitGauss ==
    /\ pc = "gauss"
    /\ ray = "none" /\ tet = "none"
    /\ \E dn \in 0..MaxDensity, o \in GaussRayOrigins, d \in GaussRayDirs,
          m \in Means, p \in Precisions :
          gs = [density |-> dn, ray_o |-> o, ray_d |-> d, mean3d |-> m, precision |-> p]

Init ==
    /\ InitTetra \/ InitGauss
    /\ tri = "none" /\ fwd = "none" /\ up = "none" /\ vjp = "none" /\ sc = "none"
    /\ op = "none" /\ og = "none"

Face(i) == FaceTable(Vert(0), Vert(1), Vert(2), Vert(3))[i]

TriRecord(i, r) == [face |-> i, hit |-> r.hit, t |-> r.t]

\* a caller tests one face
TriangleIntersect ==
    /\ pc = "start"
    /\ \E i \in 0..3 :
          tri' = TriRecord(i, ray_triangle_intersection(RayO, RayD, Face(i)[1], Face(i)[2],
                                                        Face(i)[3]))
    /\ pc' = "tri"
    /\ UNCHANGED <<ray, tet, fwd, up, vjp, sc, gs, op, og>>

\* the forward pass
TetraIntersect ==
    /\ pc = "start"
    /\ fwd' = ray_tetra_intersection(RayO, RayD, Vert(0), Vert(1), Vert(2), Vert(3))
    /\ pc' = "fwd"
    /\ UNCHANGED <<ray, tet, tri, up, vjp, sc, gs, op, og>>

\* the outcomes of an access outside the face table; nothing to choose when
\* both indices are in 0..3
UbChoices(entry_face_idx, exit_face_idx) ==
    IF entry_face_idx \in 0..3 /\ exit_face_idx \in 0..3 THEN {FALSE} ELSE BOOLEAN

\* the backward pass, recomputing variant
TetraVjp ==
    /\ pc = "fwd"
    /\ \E ge \in Grads, gx \in Grads, k \in 0..MaxAcc,
          ub \in UbChoices(fwd.entry_face_idx, fwd.exit_face_idx) :
          /\ up' = [v_t_entry |-> ge, v_t_exit |-> gx, acc0 |-> AccInit(k)]
          /\ vjp' = ray_tetra_intersection_vjp(RayO, RayD, Vert(0), Vert(1), Vert(2), Vert(3),
                                               RInt(ge), RInt(gx), AccInit(k), ub)
    /\ pc' = "vjp"
    /\ UNCHANGED <<ray, tet, tri, fwd, sc, gs, op, og>>

\* the faces ray_triangle_intersection reports as hit
HitFaces ==
    { i \in 0..3 :
        ray_triangle_intersection(RayO, RayD, Face(i)[1], Face(i)[2], Face(i)[3]).hit }

\* the index pairs a caller hands to the shortcut: those of the forward pass
\* or any two hit faces (ray_triangle_intersection_vjp is only called for a
\* face that is hit); a sample of all pairs when both upstream gradients are 0
ShortcutIndices ==
    IF up.v_t_entry = 0 /\ up.v_t_exit = 0
    THEN { <<i, j>> \in (-1..3) \X (-1..3) : j = i \/ j = (i + 1) % 4 }
    ELSE (IF fwd.hit THEN {<<fwd.entry_face_idx, fwd.exit_face_idx>>} ELSE {})
            \cup (HitFaces \X HitFaces)

\* the backward pass, shortcut variant, on the same inputs
TetraVjpShortcut ==
    /\ pc = "vjp"
    /\ \E ix \in ShortcutIndices : \E ub \in UbChoices(ix[1], ix[2]) :
          sc' = [entry_face_idx |-> ix[1], exit_face_idx |-> ix[2],
                 res |-> ray_tetra_intersection_vjp_shortcut(
                            RayO, RayD, Vert(0), Vert(1), Vert(2), Vert(3), ix[1], ix[2],
                            RInt(up.v_t_entry), RInt(up.v_t_exit), up.acc0, ub)]
    /\ pc' = "done"
    /\ UNCHANGED <<ray, tet, tri, fwd, up, vjp, gs, op, og>>

GsDensity == RInt(gs.density)
GsRayO == VecOf(gs.ray_o, 0)
GsRayD == VecOf(gs.ray_d, 0)
GsMean == VecOf(gs.mean3d, 0)
GsPrecision == MatOf(gs.precision.m, gs.precision.pe)

\* the forward pass of the integrator
IntegralOpacity ==
    /\ pc = "gauss"
    /\ \E verbose \in BOOLEAN :
          op' = integral_opacity(GsDensity, GsRayO, GsRayD, GsMean, GsPrecision, verbose)
    /\ pc' = "opacity"
    /\ UNCHANGED <<ray, tet, tri, fwd, up, vjp, sc, gs, og>>

\* its backward pass
IntegralOpacityVjp ==
    /\ pc = "opacity"
    /\ \E v_opacity \in Grads, k \in 0..MaxAcc :
          og' = [v_opacity |-> v_opacity, g0 |-> GradInit(k),
                 g |-> integral_opacity_vjp(GsDensity, GsRayO, GsRayD, GsMean, GsPrecision,
                                            RInt(v_opacity), GradInit(k))]
    /\ pc' = "opacity_vjp"
    /\ UNCHANGED <<ray, tet, tri, fwd, up, vjp, sc, gs, op>>

Next ==
    \/ TriangleIntersect
    \/ TetraIntersect
    \/ TetraVjp
    \/ TetraVjpShortcut
    \/ IntegralOpacity
    \/ IntegralOpacityVjp

Spec == Init /\ [][Next]_vars

(***************************************************************************)
(* Properties                                                              *)
(***************************************************************************)
Forwarded == pc \in {"fwd", "vjp", "done"}
Backpropagated == pc \in {"vjp", "done"}
ZeroUpstream == up.v_t_entry = 0 /\ up.v_t_exit = 0

\* what ray_triangle_intersection reports for face i of the state's tetrahedron
FaceHit(i) ==
    ray_triangle_intersection(RayO, RayD, Face(i)[1], Face(i)[2], Face(i)[3])
HitTs == { FaceHit(i).t : i \in HitFaces }
IsMinHitT(t) == t \in HitTs /\ \A i \in HitFaces : RLe(t, FaceHit(i).t)
IsMaxHitT(t) == t \in HitTs /\ \A i \in HitFaces : RLe(FaceHit(i).t, t)
LowestIndex(S) == CHOOSE i \in S : \A j \in S : i <= j

\* C1: whenever ray_tetra_intersection returns true, t_entry <= t_exit,
\* t_entry is the minimum and t_exit the maximum of the t values of the
\* faces reported as hit, whatever those t values are.
C1_EntryExitAreMinMax ==
    (Forwarded /\ fwd.hit) =>
        /\ RLe(fwd.t_entry, fwd.t_exit)
        /\ IsMinHitT(fwd.t_entry)
        /\ IsMaxHitT(fwd.t_exit)

\* C2: given the indices of the forward pass, the shortcut variant leaves
\* v_v0..v_v3 exactly as the recomputing variant does on the same inputs,
\* for every initial content of the accumulators.
C2_ShortcutEqualsRecomputing ==
    (pc = "done" /\ fwd.hit /\ sc.entry_face_idx = fwd.entry_face_idx
        /\ sc.exit_face_idx = fwd.exit_face_idx) =>
        sc.res.v = vjp.v

\* C3: with both upstream gradients 0, both variants return with v_v0..v_v3
\* as on entry, for any face indices and accumulator contents, and run
\* neither the forward intersection nor the triangle vjp.
C3_ZeroUpstreamTouchesNothing ==
    /\ (Backpropagated /\ ZeroUpstream) =>
          (vjp.v = up.acc0 /\ vjp.fwd_calls = 0 /\ vjp.tri_vjp_calls = 0 /\ ~vjp.oob)
    /\ (pc = "done" /\ ZeroUpstream) =>
          (sc.res.v = up.acc0 /\ sc.res.fwd_calls = 0 /\ sc.res.tri_vjp_calls = 0
              /\ ~sc.res.oob)

C3_Witness ==
    /\ pc = "done" /\ ZeroUpstream /\ fwd.hit
    /\ up.acc0 # ZeroAcc
    /\ sc.entry_face_idx = -1 /\ sc.exit_face_idx = -1

\* rr = dir.(precision.dir), from the integer inputs: rr = GsRrInt * 10^pe
GsRrInt ==
    LET d == gs.ray_d
        m == gs.precision.m
    IN  d[1] * (m[1][1] * d[1] + m[1][2] * d[2] + m[1][3] * d[3])
      + d[2] * (m[2][1] * d[1] + m[2][2] * d[2] + m[2][3] * d[3])
      + d[3] * (m[3][1] * d[1] + m[3][2] * d[2] + m[3][3] * d[3])

\* rr <= 1e-6
GsRrSmall ==
    IF gs.precision.pe = -6 THEN GsRrInt <= 1 ELSE GsRrInt * Pow10(gs.precision.pe + 6) <= 1

Degenerate == gs.density = 0 \/ GsRrSmall

\* C4: with density == 0 or rr <= 1e-6, integral_opacity returns exactly 0
\* and integral_opacity_vjp leaves v_mean3d, v_precision and v_density as
\* they were on entry.
C4_DegenerateIsZero ==
    /\ (pc \in {"opacity", "opacity_vjp"} /\ Degenerate) => op.opacity = RZero
    /\ (pc = "opacity_vjp" /\ Degenerate) => og.g = og.g0

C4_Witness ==
    /\ pc = "opacity_vjp" /\ gs.density # 0 /\ gs.precision.pe = -6 /\ GsRrInt = 1
    /\ og.v_opacity # 0 /\ og.g0 # GradInit(0)

\* the triangle test of face i on the integer inputs:
\* a = IA * 10^-(2 pexp + dexp), u = IU / IA, v = IV / IA,
\* t = (IT / IA) * 10^(dexp - pexp)
ISub(p, q) == <<p[1] - q[1], p[2] - q[2], p[3] - q[3]>>
IDot(p, q) == p[1] * q[1] + p[2] * q[2] + p[3] * q[3]
ICross(p, q) ==
    <<p[2] * q[3] - p[3] * q[2], p[3] * q[1] - p[1] * q[3], p[1] * q[2] - p[2] * q[1]>>
IFace(i) == <<tet[i + 1], tet[((i + 1) % 4) + 1], tet[((i + 2) % 4) + 1]>>
IE1(i) == ISub(IFace(i)[2], IFace(i)[1])
IE2(i) == ISub(IFace(i)[3], IFace(i)[1])
IS(i) == ISub(ray.o, IFace(i)[1])
IA(i) == IDot(IE1(i), ICross(ray.d, IE2(i)))
IU(i) == IDot(IS(i), ICross(ray.d, IE2(i)))
IV(i) == IDot(ray.d, ICross(IS(i), IE1(i)))
IT(i) == IDot(IE2(i), ICross(IS(i), IE1(i)))
\* a inside the open interval (-1e-8, 1e-8)
IParallel(i) ==
    IF 2 * ray.pexp + ray.dexp <= 8 THEN IA(i) = 0
    ELSE Abs(IA(i)) < Pow10(2 * ray.pexp + ray.dexp - 8)
ISign(x) == IF x < 0 THEN -1 ELSE 1
IInside(i) ==
    /\ 0 <= IU(i) * ISign(IA(i)) /\ IU(i) * ISign(IA(i)) <= Abs(IA(i))
    /\ 0 <= IV(i) * ISign(IA(i))
    /\ (IU(i) + IV(i)) * ISign(IA(i)) <= Abs(IA(i))

\* C5: ray_triangle_intersection reports a hit exactly when a is not inside
\* (-1e-8, 1e-8), 0 <= u <= 1, v >= 0 and u + v <= 1, and then returns
\* t = f * (e2.q) whatever its sign.
C5_TriangleHitExactly ==
    pc = "tri" =>
        /\ tri.hit <=> (~IParallel(tri.face) /\ IInside(tri.face))
        /\ tri.hit => tri.t = Norm(IT(tri.face), IA(tri.face), ray.dexp - ray.pexp)

C5_Witness == pc = "tri" /\ tri.hit /\ tri.t.n < 0

\* the tetrahedron (0,0,0),(1,0,0),(0,1,0),(0,0,1) and the ray from
\* (0.1,0.1,2) along (0,0,-1)
ExampleScene ==
    /\ Forwarded
    /\ ray = [o |-> <<1, 1, 20>>, d |-> <<0, 0, -1>>, pexp |-> 1, dexp |-> 0]
    /\ tet = Tetra

\* |x - c / 100| <= 0.05
Near(x, c) == RLe(RExp(c - 5, -2), x) /\ RLe(x, RExp(c + 5, -2))

\* C6 as stated: the example reports a hit with entry_face_idx = 1,
\* t_entry about 1.8, and exit through face 0 with t_exit about 2.0.
C6_ExampleAsStated ==
    ExampleScene =>
        /\ fwd.hit /\ fwd.entry_face_idx = 1 /\ Near(fwd.t_entry, 180)
        /\ fwd.exit_face_idx = 0 /\ Near(fwd.t_exit, 200)

\* C6 amended: the example reports a hit with entry_face_idx = 1 and
\* t_entry about 1.2 (face 1 is the plane x + y + z = 1, met at z = 0.8),
\* and exit through face 0 with t_exit about 2.0.
C6_Example ==
    ExampleScene =>
        /\ fwd.hit /\ fwd.entry_face_idx = 1 /\ Near(fwd.t_entry, 120)
        /\ fwd.exit_face_idx = 0 /\ Near(fwd.t_exit, 200)

C6_Witness == ExampleScene /\ fwd.hit /\ pc = "fwd"

\* C7: whenever a hit is reported, entry_face_idx is the lowest index among
\* the hit faces at the minimum t and exit_face_idx the lowest index among
\* the hit faces at the maximum t.
C7_FirstInOrderWins ==
    (Forwarded /\ fwd.hit) =>
        /\ fwd.entry_face_idx \in HitFaces
        /\ fwd.exit_face_idx \in HitFaces
        /\ fwd.entry_face_idx =
              LowestIndex({ i \in HitFaces : IsMinHitT(FaceHit(i).t) })
        /\ fwd.exit_face_idx =
              LowestIndex({ i \in HitFaces : IsMaxHitT(FaceHit(i).t) })

\* C8 as stated: with a non-zero upstream gradient and no hit,
\* ray_tetra_intersection_vjp leaves v_v0..v_v3 as they were on entry.
C8_NoHitKeepsAccumulators ==
    (Backpropagated /\ ~ZeroUpstream /\ ~fwd.hit) => vjp.v = up.acc0

\* C8 amended: with a non-zero upstream gradient and no hit,
\* ray_tetra_intersection_vjp returns with v_v0..v_v3 all zero, whatever
\* they held on entry, having run the forward pass once and no triangle vjp.
C8_NoHitZeroesAccumulators ==
    (Backpropagated /\ ~ZeroUpstream /\ ~fwd.hit) =>
        (vjp.v = ZeroAcc /\ vjp.fwd_calls = 1 /\ vjp.tri_vjp_calls = 0)

C8_Witness ==
    pc = "vjp" /\ ~ZeroUpstream /\ ~fwd.hit /\ up.acc0 # ZeroAcc /\ vjp.v = ZeroAcc

\* what the triangle vjp of face i returns for upstream gradient v_t
FaceGrad(i, v_t) ==
    ray_triangle_intersection_vjp(RayO, RayD, Face(i)[1], Face(i)[2], Face(i)[3], RInt(v_t))

\* the part of face i's gradients g that belongs to vertex j
Share(j, i, g) ==
    IF j = i THEN g[1]
    ELSE IF j = (i + 1) % 4 THEN g[2]
    ELSE IF j = (i + 2) % 4 THEN g[3]
    ELSE VZero

\* base plus the entry face's and the exit face's shares, vertex by vertex
Scattered(base, entry, exit) ==
    LET ge == FaceGrad(entry, up.v_t_entry)
        gx == FaceGrad(exit, up.v_t_exit)
    IN  [j \in 0..3 |-> VAdd(VAdd(base[j], Share(j, entry, ge)), Share(j, exit, gx))]

\* C9: in both variants the k-th gradient of face i is added to the
\* accumulator of vertex (i + k) mod 4, for the entry and the exit face
\* alike: a vertex of both faces ends with both contributions, the vertex
\* not in a face receives nothing from it.  The recomputing variant adds to
\* the accumulators it has zeroed, the shortcut to those it was handed.
C9_ScatterFollowsFaceTable ==
    /\ (Backpropagated /\ ~ZeroUpstream /\ fwd.hit
            /\ fwd.entry_face_idx \in 0..3 /\ fwd.exit_face_idx \in 0..3) =>
          vjp.v = Scattered(ZeroAcc, fwd.entry_face_idx, fwd.exit_face_idx)
    /\ (pc = "done" /\ ~ZeroUpstream
            /\ sc.entry_face_idx \in 0..3 /\ sc.exit_face_idx \in 0..3) =>
          sc.res.v = Scattered(up.acc0, sc.entry_face_idx, sc.exit_face_idx)

C9_Witness ==
    /\ pc = "done" /\ up.v_t_entry # 0 /\ up.v_t_exit # 0 /\ up.acc0 # ZeroAcc
    /\ fwd.hit /\ fwd.entry_face_idx = 2 /\ fwd.exit_face_idx = 1
    /\ sc.entry_face_idx = 2 /\ sc.exit_face_idx = 1
    /\ FaceGrad(2, up.v_t_entry)[3] # VZero /\ FaceGrad(1, up.v_t_exit)[2] # VZero

\* C10: whenever ray_tetra_intersection returns true both indices are in
\* 0..3, so ray_tetra_intersection_vjp never indexes the face table out of
\* range; and it returns false exactly when no face was hit.
C10_IndicesInRange ==
    /\ (Forwarded /\ fwd.hit) =>
          (fwd.entry_face_idx \in 0..3 /\ fwd.exit_face_idx \in 0..3)
    /\ Forwarded => (~fwd.hit <=> HitFaces = {})
    /\ Backpropagated => ~vjp.oob

====
